---- MODULE Spec2Model ----
(***************************************************************************)
(* The benchmark service of benchmark-test: Service.Start launches one     *)
(* Measure goroutine per enabled collector, waits for the run context to   *)
(* be cancelled, reads every collector's store and renders the report.     *)
(* The collectors are the seven whose code the repository holds.           *)
(***************************************************************************)
EXTENDS Integers, Sequences, FiniteSets, TLC

\* ---------------------------------------------------------------- bounds

\* The ticks of one collector's Measure loop that may append within a run.
MaxTicks == 1

\* The metric flags that are enabled together in one configuration.
MaxEnabled == 2

\* ---------------------------------------------------------------- groups

ConsensusGroup == "Consensus"

ExecutionGroup == "Execution"

InfrastructureGroup == "Infrastructure"

Groups == {ConsensusGroup, ExecutionGroup, InfrastructureGroup}

\* -------------------------------------------------------------- collectors

Collectors ==
    {"ConsClient", "ConsLatency", "ConsPeers", "ExecPeers", "ExecLatency", "CPU", "Memory"}

\* The group under which LoadEnabledMetrics files each collector.
GroupOf(c) ==
    CASE c \in {"ConsClient", "ConsLatency", "ConsPeers"} -> ConsensusGroup
      [] c \in {"ExecPeers", "ExecLatency"} -> ExecutionGroup
      [] OTHER -> InfrastructureGroup

\* The name each collector is constructed with (Base.Name).
GetName(c) ==
    CASE c = "ConsClient" -> "Client"
      [] c \in {"ConsLatency", "ExecLatency"} -> "Latency"
      [] c \in {"ConsPeers", "ExecPeers"} -> "Peers"
      [] c = "CPU" -> "CPU"
      [] OTHER -> "Memory"

\* The order in which LoadEnabledMetrics appends the collectors of a group.
LoadOrder(g) ==
    CASE g = ConsensusGroup -> <<"ConsClient", "ConsLatency", "ConsPeers">>
      [] g = ExecutionGroup -> <<"ExecPeers", "ExecLatency">>
      [] OTHER -> <<"CPU", "Memory">>

\* The map LoadEnabledMetrics returns when it succeeds: a group has an entry
\* only when one of its flags is enabled.
LoadEnabledMetrics(flags) ==
    [g \in {GroupOf(c) : c \in flags} |->
        SelectSeq(LoadOrder(g), LAMBDA c : c \in flags)]

\* ------------------------------------------------------------ small helpers

Last(s) == s[Len(s)]

Range(s) == {s[i] : i \in 1..Len(s)}

RECURSIVE SortAsc(_)
\* Ascending sort of a sequence of integers (insertion of the minimum first).
SortAsc(s) ==
    IF Len(s) = 0 THEN <<>>
    ELSE LET i == CHOOSE k \in 1..Len(s) : \A j \in 1..Len(s) : s[k] <= s[j]
         IN  <<s[i]>> \o SortAsc(SubSeq(s, 1, i - 1) \o SubSeq(s, i + 1, Len(s)))

\* A rank computed with the integer division's rounding down.
FloorDiv(a, b) == a \div b

\* ceil(a / b) for a >= 0, b > 0.
CeilDiv(a, b) == (a + b - 1) \div b

\* A calculator without the empty-input case: the clamped index n - 1 is -1
\* and nothing is read.
CalculatePercentilesNoGuard(values, p) ==
    LET n == Len(values)
        raw == CeilDiv(p * n, 100) - 1
        low == IF raw < 0 THEN 0 ELSE raw
        idx == IF low > n - 1 THEN n - 1 ELSE low
    IN  IF idx + 1 \in 1..n THEN SortAsc(values)[idx + 1] ELSE idx

\* metric.CalculatePercentiles: nearest-rank percentile of a sequence, the
\* type's zero value for an empty one.
CalculatePercentiles(values, p) ==
    IF Len(values) = 0 THEN 0
    ELSE LET n == Len(values)
             raw == CeilDiv(p * n, 100) - 1
             idx == IF raw < 0 THEN 0 ELSE IF raw > n - 1 THEN n - 1 ELSE raw
         IN  SortAsc(values)[idx + 1]

\* metric.FormatPercentiles: the rendered summary keeps the five values.
FormatPercentiles(min, p10, p50, p90, max) ==
    [kind |-> "percentiles", min |-> min, p10 |-> p10, p50 |-> p50, p90 |-> p90, max |-> max]

\* ------------------------------------------------------------------ parsing

HexDigits ==
    <<"0", "1", "2", "3", "4", "5", "6", "7", "8", "9", "a", "b", "c", "d", "e", "f">>

\* The value of a digit character in the given base, -1 when it is none.
DigitVal(ch, base) ==
    IF \E i \in 1..base : HexDigits[i] = ch
    THEN (CHOOSE i \in 1..base : HexDigits[i] = ch) - 1
    ELSE -1

RECURSIVE ParseDigits(_, _, _)
\* The number a non-empty all-digit string denotes, read left to right.
ParseDigits(s, base, acc) ==
    IF Len(s) = 0 THEN acc
    ELSE ParseDigits(Tail(s), base, acc * base + DigitVal(Head(s), base))

\* strconv.Atoi / strconv.ParseInt on an unsigned digit string: err is TRUE
\* for the empty string and for a string holding a non-digit.
ParseInt(s, base) ==
    IF Len(s) = 0 \/ \E i \in 1..Len(s) : DigitVal(s[i], base) < 0
    THEN [err |-> TRUE, val |-> 0]
    ELSE [err |-> FALSE, val |-> ParseDigits(s, base, 0)]

\* fmt.Sprintf("%dms", latency) in ClientMetric.measureLatency.
FormatMs(ms) == ToString(ms) \o "ms"

\* ------------------------------------------------------------------- probes

\* The "connected" strings a beacon node answers /eth/v1/node/peer_count with.
ConnectedStrings == {<<>>, <<"x">>, <<"4">>, <<"3", "0">>}

\* The "result" strings an execution node answers net_peerCount with.
ResultStrings ==
    {<<>>, <<"5">>, <<"0", "x">>, <<"0", "x", "4">>, <<"0", "x", "1", "e">>}

\* The round-trip times (ms) a latency probe measures.
LatencySamples == {200, 1500}

\* The counters cpu.Get() adds between two reads.
CpuDeltas == {[user |-> 1, system |-> 1, total |-> 4]}

\* The statistics (bytes) memory.Get() reads.
MemoryStats ==
    {[cached |-> 1048576, used |-> 2097152, free |-> 1048576, total |-> 4194304]}

\* The version strings a beacon node reports.
VersionStrings == {"v1"}

\* The number of probes, hence DataPoints, of one tick of Measure.
ProbesPerTick(c) == IF c = "ConsClient" THEN 4 ELSE 1

\* What a probe can come back with, by collector and by probe of the tick:
\* one kind per branch of the code that handles the answer.
Responses(c, n) ==
    CASE c = "ConsPeers" ->
            {[kind |-> k, data |-> <<>>] : k \in {"transportErr", "non200", "undecodable"}}
            \cup {[kind |-> "body", data |-> b] : b \in ConnectedStrings}
      [] c = "ExecPeers" ->
            {[kind |-> k, data |-> <<>>] : k \in {"transportErr", "non200", "undecodable"}}
            \cup {[kind |-> "body", data |-> b] : b \in ResultStrings}
      [] c \in {"ConsLatency", "ExecLatency"} ->
            {[kind |-> "err", data |-> 0]}
            \cup {[kind |-> "ok", data |-> d] : d \in LatencySamples}
      [] c = "CPU" ->
            {[kind |-> "err", data |-> 0]}
            \cup {[kind |-> "ok", data |-> d] : d \in CpuDeltas}
      [] c = "Memory" ->
            {[kind |-> "err", data |-> 0]}
            \cup {[kind |-> "ok", data |-> m] : m \in MemoryStats}
      [] c = "ConsClient" /\ n = 2 ->
            {[kind |-> k, data |-> ""] : k \in {"transportErr", "non200", "undecodable"}}
            \cup {[kind |-> "ok", data |-> v] : v \in VersionStrings}
      [] c = "ConsClient" /\ n = 4 ->
            {[kind |-> "err", data |-> 0], [kind |-> "ok", data |-> 12]}
      [] OTHER ->
            {[kind |-> "fail", data |-> 0], [kind |-> "ok", data |-> 0]}

\* The tick interval (seconds) LoadEnabledMetrics constructs each collector
\* with; its call of NewClientMetric passes none (0 stands for that).
ConfiguredInterval(c) ==
    CASE c \in {"ConsLatency", "ExecLatency"} -> 3
      [] c \in {"ConsPeers", "ExecPeers", "Memory"} -> 10
      [] c = "CPU" -> 5
      [] OTHER -> 0

\* The deadline of one probe of a collector constructed with interval iv:
\* both PeerMetrics give the request a 5 s context, both LatencyMetrics a
\* timeout of 0.75 * interval, ClientMetric calls http.Get, which has none;
\* the CPU and memory reads are local and return at once.
ProbeTimeout(c, iv) ==
    CASE c \in {"ConsPeers", "ExecPeers"} -> [bounded |-> TRUE, after |-> 5]
      [] c \in {"ConsLatency", "ExecLatency"} -> [bounded |-> TRUE, after |-> (iv * 3) \div 4]
      [] c = "ConsClient" -> [bounded |-> FALSE, after |-> 0]
      [] OTHER -> [bounded |-> TRUE, after |-> 0]

\* -------------------------------------------------------------------- state

VARIABLES
    metrics,          \* Service.metrics: group -> its collectors, in order
    cancelled,        \* the run context is done
    pcOrch,           \* where Service.Start is
    launched,         \* the positions of the launch loop already visited
    evaluated,        \* the positions of the report loop already visited
    pending,          \* the collector whose EvaluateMetric result is in hand
    records,          \* the Records the ReportSink has been given, in order
    renders,          \* the number of Render calls
    pcM,              \* where each Measure goroutine is
    stage,            \* the probe of the tick a Measure goroutine is at
    resp,             \* the answer a Measure goroutine's probe came back with
    store,            \* Base.DataPoints of each collector
    writers,          \* the goroutines that have appended to each store
    readers,          \* the goroutines that have read each store
    durations,        \* LatencyMetric.durations
    measuringErrors,  \* execution PeerMetric.measuringErrors (its keys)
    cpuPrev,          \* CPUMetric.prevUser, prevSystem, total
    now,              \* the seconds elapsed since the run context was created
    interval,         \* the tick interval each collector is constructed with
    tickC,            \* ticker.C of each Measure: a tick is buffered
    probeAge,         \* the seconds the tick in progress has been running
    pctValues,        \* the slice a caller hands CalculatePercentiles
    pctP,             \* the percentile it asks for
    pctResult,        \* what CalculatePercentiles returned to it
    evPoints,         \* the DataPoints of a store EvaluateMetric is called on
    evConds,          \* the HealthConditions of that collector
    evVerdict,        \* what EvaluateMetric returned
    config,           \* configs.Values: flags, section addresses, network
    pcRun,            \* where CMD.Run is
    validateResult,   \* isValid, err of Benchmark.Validate
    loadResult,       \* metrics, err of LoadEnabledMetrics
    monPc,            \* where the exporter's startMonitoring is
    monTicker,        \* its ticker.C: a tick is buffered
    monTicks,         \* the ticks its ticker has fired
    monCtxDone,       \* its context is done
    collected,        \* the collections it has run, in order, with their outcome
    gauges,           \* the exporter's Prometheus gauges
    prevCounters,     \* the exporter's prevUser, prevSystem, prevTotal
    tablePc,          \* where runRealTimeMetrics / printMetricsTable is
    round,            \* the iteration of runRealTimeMetrics' loop
    shown             \* what each display call has printed, in order

\* The benchmark service's own state.
serviceVars ==
    <<metrics, cancelled, pcOrch, launched, evaluated, pending, records, renders,
      pcM, stage, resp, store, writers, readers, durations, measuringErrors, cpuPrev>>

\* The clock and the tickers.
clockVars == <<now, interval, tickC, probeAge>>

\* A caller of CalculatePercentiles.
calcVars == <<pctValues, pctP, pctResult>>

\* A caller of EvaluateMetric.
evalVars == <<evPoints, evConds, evVerdict>>

\* The benchmark command before the service is started.
runVars == <<config, pcRun, validateResult, loadResult>>

\* The standalone infrastructure exporter.
monVars == <<monPc, monTicker, monTicks, monCtxDone, collected, gauges, prevCounters>>

\* The standalone metrics table.
tableVars == <<tablePc, round, shown>>

\* The two standalone programs.
toolVars == <<monVars, tableVars>>

\* What an operation of the service leaves alone when time is not followed.
sideVars == <<clockVars, calcVars, evalVars, runVars, toolVars>>

vars == <<serviceVars, sideVars>>

orchVars == <<pcOrch, launched, evaluated, pending, records, renders, readers>>

collectorVars == <<store, writers, durations, measuringErrors, cpuPrev>>

Orchestrator == "Service.Start"

NoResp == [kind |-> "none", data |-> 0]

\* The collectors Service.metrics holds.
Enabled == UNION {Range(metrics[g]) : g \in DOMAIN metrics}

\* An unrecovered panic in any goroutine ends the process.
Crashed == pcOrch = "panicked" \/ \E t \in Collectors : pcM[t] = "panicked"

\* ------------------------------------------------------------ the collectors

\* A launch loop whose goroutines all see one loop variable: each Measure
\* runs on the last collector of its group.
RecvLoopVar(t) == Last(LoadOrder(GroupOf(t)))

\* The receiver of the Measure call that the launch loop's `go` statement
\* starts at position t of Service.metrics.
Recv(t) == t

\* A store that keeps only the newest DataPoint.
AddDataPointKeepNewest(t, c, values) ==
    /\ store' = [store EXCEPT ![c] = <<values>>]
    /\ writers' = [writers EXCEPT ![c] = @ \cup {t}]

\* Base.AddDataPoint by goroutine t on collector c: append, never fail.
AddDataPoint(t, c, values) ==
    /\ store' = [store EXCEPT ![c] = Append(@, values)]
    /\ writers' = [writers EXCEPT ![c] = @ \cup {t}]

\* The select of Measure takes the ticker's case: the tick's first probe goes out.
\* (select picks among the ready cases at random, so a tick that is due is
\* taken whether or not the context is done as well.)
MeasureTick(t) ==
    /\ ~Crashed
    /\ pcM[t] = "select"
    /\ Len(store[Recv(t)]) < MaxTicks * ProbesPerTick(Recv(t))
    /\ pcM' = [pcM EXCEPT ![t] = "probing"]
    /\ stage' = [stage EXCEPT ![t] = 1]
    /\ UNCHANGED <<sideVars, metrics, cancelled, resp, orchVars, collectorVars>>

\* The select of Measure takes <-ctx.Done(): Measure returns.
MeasureStop(t) ==
    /\ ~Crashed
    /\ pcM[t] = "select"
    /\ cancelled
    /\ pcM' = [pcM EXCEPT ![t] = "returned"]
    /\ UNCHANGED <<sideVars, metrics, cancelled, stage, resp, orchVars, collectorVars>>

\* The probe's blocking call (HTTP request, dial, OS read) comes back.
ProbeReturns(t) ==
    /\ ~Crashed
    /\ pcM[t] = "probing"
    /\ \E r \in Responses(Recv(t), stage[t]) : resp' = [resp EXCEPT ![t] = r]
    /\ pcM' = [pcM EXCEPT ![t] = "handling"]
    /\ UNCHANGED <<sideVars, metrics, cancelled, stage, orchVars, collectorVars>>

\* A probe with no deadline whose peer never answers: the call never returns.
ProbeHangs(t) ==
    /\ ~Crashed
    /\ pcM[t] = "probing"
    /\ ~ProbeTimeout(Recv(t), interval[Recv(t)]).bounded
    /\ pcM' = [pcM EXCEPT ![t] = "hung"]
    /\ UNCHANGED <<sideVars, metrics, cancelled, stage, resp, orchVars, collectorVars>>

\* measure has handled the answer: back to the select.
BackToSelect(t) ==
    /\ pcM' = [pcM EXCEPT ![t] = "select"]
    /\ resp' = [resp EXCEPT ![t] = NoResp]
    /\ UNCHANGED <<sideVars, metrics, cancelled, stage, orchVars>>

\* consensus PeerMetric.measure after http.DefaultClient.Do: every failure
\* appends PeerCount 0, a parsed count is written by writeMetric.
ConsPeersMeasure(t) ==
    /\ ~Crashed
    /\ pcM[t] = "handling"
    /\ Recv(t) = "ConsPeers"
    /\ LET r == resp[t]
           n == IF r.kind = "body" THEN ParseInt(r.data, 10) ELSE [err |-> TRUE, val |-> 0]
       IN  AddDataPoint(t, "ConsPeers", [PeerCount |-> IF n.err THEN 0 ELSE n.val])
    /\ BackToSelect(t)
    /\ UNCHANGED <<durations, measuringErrors, cpuPrev>>

\* A measure whose next successful probe forgets the recorded error.
RecordMeasuringErrorCleared(errors, r) ==
    IF r.kind = "body" /\ Len(r.data) = 0 THEN errors \cup {"Count"}
    ELSE IF r.kind = "body" THEN {}
    ELSE errors

\* p.measuringErrors[PeerCountMeasurement] = errors.Join(measuringErr, err),
\* in the empty-result branch of measure only; no other branch touches the map.
RecordMeasuringError(errors, r) ==
    IF r.kind = "body" /\ Len(r.data) = 0 THEN errors \cup {"Count"} ELSE errors

\* execution PeerMetric.measure after http.DefaultClient.Do. An empty result
\* writes 0 and records the measuring error; peerCountHex[2:] panics on a
\* result shorter than two characters.
ExecPeersMeasure(t) ==
    /\ ~Crashed
    /\ pcM[t] = "handling"
    /\ Recv(t) = "ExecPeers"
    /\ LET r == resp[t]
       IN  IF r.kind = "body" /\ Len(r.data) = 1
           THEN /\ pcM' = [pcM EXCEPT ![t] = "panicked"]
                /\ UNCHANGED <<sideVars, metrics, cancelled, stage, resp, orchVars, collectorVars>>
           ELSE /\ LET n == IF r.kind = "body" /\ Len(r.data) >= 2
                            THEN ParseInt(SubSeq(r.data, 3, Len(r.data)), 16)
                            ELSE [err |-> TRUE, val |-> 0]
                   IN  AddDataPoint(t, "ExecPeers", [Count |-> IF n.err THEN 0 ELSE n.val])
                /\ measuringErrors' = RecordMeasuringError(measuringErrors, r)
                /\ BackToSelect(t)
                /\ UNCHANGED <<durations, cpuPrev>>

\* LatencyMetric.writeMetric (both packages): the DataPoint holds the
\* percentiles of every duration recorded so far.
LatencyPoint(ds) ==
    [DurationMin |-> CalculatePercentiles(ds, 0),
     DurationP10 |-> CalculatePercentiles(ds, 10),
     DurationP50 |-> CalculatePercentiles(ds, 50),
     DurationP90 |-> CalculatePercentiles(ds, 90),
     DurationMax |-> CalculatePercentiles(ds, 100)]

\* LatencyMetric.measure (consensus: HTTP GET, execution: TCP dial): a failed
\* probe is logged and nothing is stored; a successful one is appended to
\* durations and written.
LatencyMeasure(t) ==
    /\ ~Crashed
    /\ pcM[t] = "handling"
    /\ Recv(t) \in {"ConsLatency", "ExecLatency"}
    /\ LET c == Recv(t)
           r == resp[t]
       IN  IF r.kind = "err"
           THEN UNCHANGED <<store, writers, durations>>
           ELSE /\ durations' = [durations EXCEPT ![c] = Append(@, r.data)]
                /\ AddDataPoint(t, c, LatencyPoint(Append(durations[c], r.data)))
    /\ BackToSelect(t)
    /\ UNCHANGED <<measuringErrors, cpuPrev>>

\* A measure that writes the percentages but does not remember the counters.
CPUMeasureKeepsCounters(t) ==
    /\ ~Crashed
    /\ pcM[t] = "handling"
    /\ Recv(t) = "CPU"
    /\ LET r == resp[t]
       IN  IF r.kind = "err"
           THEN UNCHANGED <<store, writers>>
           ELSE AddDataPoint(t, "CPU",
                    [System |-> (r.data.system * 100) \div r.data.total,
                     User |-> (r.data.user * 100) \div r.data.total])
    /\ BackToSelect(t)
    /\ UNCHANGED <<durations, measuringErrors, cpuPrev>>

\* CPUMetric.measure: a failed read returns at once; otherwise the percentages
\* of the counters' growth are written and the counters remembered.
CPUMeasure(t) ==
    /\ ~Crashed
    /\ pcM[t] = "handling"
    /\ Recv(t) = "CPU"
    /\ LET r == resp[t]
       IN  IF r.kind = "err"
           THEN UNCHANGED <<store, writers, cpuPrev>>
           ELSE LET cpu == [user |-> cpuPrev.prevUser + r.data.user,
                            system |-> cpuPrev.prevSystem + r.data.system,
                            total |-> cpuPrev.total + r.data.total]
                    systemPercent ==
                        ((cpu.system - cpuPrev.prevSystem) * 100) \div (cpu.total - cpuPrev.total)
                    userPercent ==
                        ((cpu.user - cpuPrev.prevUser) * 100) \div (cpu.total - cpuPrev.total)
                IN  /\ cpuPrev' = [prevUser |-> cpu.user, prevSystem |-> cpu.system,
                                   total |-> cpu.total]
                    /\ AddDataPoint(t, "CPU", [System |-> systemPercent, User |-> userPercent])
    /\ BackToSelect(t)
    /\ UNCHANGED <<durations, measuringErrors>>

\* MemoryMetric.measure: a failed read returns at once; otherwise writeMetric
\* appends the four statistics.
MemoryMeasure(t) ==
    /\ ~Crashed
    /\ pcM[t] = "handling"
    /\ Recv(t) = "Memory"
    /\ LET r == resp[t]
       IN  IF r.kind = "err"
           THEN UNCHANGED <<store, writers>>
           ELSE AddDataPoint(t, "Memory",
                    [Cached |-> r.data.cached, Used |-> r.data.used,
                     Free |-> r.data.free, Total |-> r.data.total])
    /\ BackToSelect(t)
    /\ UNCHANGED <<durations, measuringErrors, cpuPrev>>

\* A tick that asks for the version before the health.
ClientPointVersionFirst(n, r) ==
    CASE n = 1 -> [Version |-> IF r.kind = "ok" THEN "v1" ELSE ""]
      [] n = 2 -> [NodeHealth |-> IF r.kind = "ok" THEN "Healthy" ELSE "Unhealthy"]
      [] n = 3 -> [SyncStatus |-> IF r.kind = "ok" THEN "Synced" ELSE "Not Synced"]
      [] OTHER -> [Latency |-> IF r.kind = "ok" THEN FormatMs(r.data) ELSE "Error"]

\* The DataPoint one probe of ClientMetric's tick appends: measureNodeHealth,
\* measureNodeVersion, measureSyncStatus, measureLatency, in that order.
ClientPoint(n, r) ==
    CASE n = 1 -> [NodeHealth |-> IF r.kind = "ok" THEN "Healthy" ELSE "Unhealthy"]
      [] n = 2 -> [Version |-> IF r.kind = "ok" THEN r.data ELSE ""]
      [] n = 3 -> [SyncStatus |-> IF r.kind = "ok" THEN "Synced" ELSE "Not Synced"]
      [] OTHER -> [Latency |-> IF r.kind = "ok" THEN FormatMs(r.data) ELSE "Error"]

\* One probe of ClientMetric's tick has been handled: its DataPoint is
\* appended and the next probe of the tick goes out, or the tick is over.
ClientMeasure(t) ==
    /\ ~Crashed
    /\ pcM[t] = "handling"
    /\ Recv(t) = "ConsClient"
    /\ AddDataPoint(t, "ConsClient", ClientPoint(stage[t], resp[t]))
    /\ resp' = [resp EXCEPT ![t] = NoResp]
    /\ IF stage[t] < ProbesPerTick("ConsClient")
       THEN /\ stage' = [stage EXCEPT ![t] = @ + 1]
            /\ pcM' = [pcM EXCEPT ![t] = "probing"]
       ELSE /\ pcM' = [pcM EXCEPT ![t] = "select"]
            /\ UNCHANGED stage
    /\ UNCHANGED <<sideVars, metrics, cancelled, orchVars, durations, measuringErrors, cpuPrev>>

\* -------------------------------------------------------- AggregateResults

\* The column of one measurement over a store's DataPoints (a missing key
\* reads as the zero value, as a Go map does).
Column(points, name, zero) ==
    [i \in 1..Len(points) |->
        IF name \in DOMAIN points[i] THEN points[i][name] ELSE zero]

Panic == [kind |-> "panic"]

\* consensus LatencyMetric.AggregateResults: the last DataPoint, zeros when
\* there is none.
ConsLatencyAggregateResults(points) ==
    IF Len(points) > 0
    THEN LET v == Last(points)
         IN  FormatPercentiles(v.DurationMin, v.DurationP10, v.DurationP50,
                               v.DurationP90, v.DurationMax)
    ELSE FormatPercentiles(0, 0, 0, 0, 0)

\* execution LatencyMetric.AggregateResults: indexes DataPoints[len-1]
\* unguarded, which is out of range on an empty store.
ExecLatencyAggregateResults(points) ==
    IF Len(points) - 1 >= 0 /\ Len(points) - 1 < Len(points)
    THEN LET v == points[(Len(points) - 1) + 1]
         IN  FormatPercentiles(v.DurationMin, v.DurationP10, v.DurationP50,
                               v.DurationP90, v.DurationMax)
    ELSE Panic

\* The five percentiles both PeerMetric.AggregateResults format.
PeerPercentiles(values) ==
    FormatPercentiles(CalculatePercentiles(values, 0), CalculatePercentiles(values, 10),
                      CalculatePercentiles(values, 50), CalculatePercentiles(values, 90),
                      CalculatePercentiles(values, 100))

\* consensus PeerMetric.AggregateResults.
ConsPeersAggregateResults(points) == PeerPercentiles(Column(points, "PeerCount", 0))

\* execution PeerMetric.AggregateResults: a recorded measuring error is
\* returned instead of the percentiles.
ExecPeersAggregateResults(points, errors) ==
    IF errors # {}
    THEN [kind |-> "error", text |-> "UNABLE_TO_MEASURE"]
    ELSE PeerPercentiles(Column(points, "Count", 0))

\* toMegabytes.
toMegabytes(bytes) == bytes \div (1024 * 1024)

\* MemoryMetric.AggregateResults: the P50 of each statistic, in MB.
MemoryAggregateResults(points) ==
    LET mb(name) == [i \in 1..Len(points) |-> toMegabytes(Column(points, name, 0)[i])]
    IN  [kind |-> "memory",
         total |-> CalculatePercentiles(mb("Total"), 50),
         used |-> CalculatePercentiles(mb("Used"), 50),
         cached |-> CalculatePercentiles(mb("Cached"), 50),
         free |-> CalculatePercentiles(mb("Free"), 50)]

RECURSIVE LastValue(_, _, _)
\* The value of `name` in the last DataPoint that holds it, `zero` if none does.
LastValue(points, name, zero) ==
    IF Len(points) = 0 THEN zero
    ELSE IF name \in DOMAIN Last(points) THEN Last(points)[name]
    ELSE LastValue(SubSeq(points, 1, Len(points) - 1), name, zero)

RECURSIVE FirstValue(_, _, _)
\* The value of `name` in the first DataPoint that holds it, `zero` if none does.
FirstValue(points, name, zero) ==
    IF Len(points) = 0 THEN zero
    ELSE IF name \in DOMAIN Head(points) THEN Head(points)[name]
    ELSE FirstValue(Tail(points), name, zero)

\* An AggregateResults whose loop stops at the first DataPoint of a measurement.
ClientAggregateResultsFirst(points) ==
    [kind |-> "client",
     version |-> FirstValue(points, "Version", ""),
     health |-> FirstValue(points, "NodeHealth", ""),
     syncStatus |-> FirstValue(points, "SyncStatus", ""),
     latency |-> FirstValue(points, "Latency", "")]

\* ClientMetric.AggregateResults: for each measurement the value of the last
\* DataPoint that holds it.
ClientAggregateResults(points) ==
    [kind |-> "client",
     version |-> LastValue(points, "Version", ""),
     health |-> LastValue(points, "NodeHealth", ""),
     syncStatus |-> LastValue(points, "SyncStatus", ""),
     latency |-> LastValue(points, "Latency", "")]

\* CPUMetric.AggregateResults: the P50 of the system and user percentages.
CPUAggregateResults(points) ==
    [kind |-> "cpu",
     system |-> CalculatePercentiles(Column(points, "System", 0), 50),
     user |-> CalculatePercentiles(Column(points, "User", 0), 50)]

\* m.AggregateResults() as Service.Start calls it, on the state as it is.
AggregateResults(c) ==
    CASE c = "ConsClient" -> ClientAggregateResults(store[c])
      [] c = "ConsLatency" -> ConsLatencyAggregateResults(store[c])
      [] c = "ConsPeers" -> ConsPeersAggregateResults(store[c])
      [] c = "ExecPeers" -> ExecPeersAggregateResults(store[c], measuringErrors)
      [] c = "ExecLatency" -> ExecLatencyAggregateResults(store[c])
      [] c = "CPU" -> CPUAggregateResults(store[c])
      [] OTHER -> MemoryAggregateResults(store[c])

\* ---------------------------------------------------------- EvaluateMetric

\* The health conditions LoadEnabledMetrics constructs each collector with
\* (durations in ms).
HealthConditions(c) ==
    CASE c = "ConsClient" ->
            <<[name |-> "Version", threshold |-> "", op |-> "=", severity |-> "High"]>>
      [] c \in {"ConsLatency", "ExecLatency"} ->
            <<[name |-> "DurationP90", threshold |-> 1000, op |-> ">=", severity |-> "High"]>>
      [] c = "ConsPeers" ->
            <<[name |-> "PeerCount", threshold |-> 5, op |-> "<=", severity |-> "High"],
              [name |-> "PeerCount", threshold |-> 20, op |-> "<=", severity |-> "Medium"],
              [name |-> "PeerCount", threshold |-> 40, op |-> "<=", severity |-> "Low"]>>
      [] c = "ExecPeers" ->
            <<[name |-> "Count", threshold |-> 5, op |-> "<=", severity |-> "High"],
              [name |-> "Count", threshold |-> 20, op |-> "<=", severity |-> "Medium"],
              [name |-> "Count", threshold |-> 40, op |-> "<=", severity |-> "Low"]>>
      [] c = "Memory" ->
            <<[name |-> "Free", threshold |-> 0, op |-> "=", severity |-> "High"]>>
      [] OTHER -> <<>>

\* A condition's operator applied to a value and the threshold.
Holds(op, v, threshold) ==
    CASE op = "=" -> v = threshold
      [] op = "<" -> v < threshold
      [] op = "<=" -> v <= threshold
      [] op = ">" -> v > threshold
      [] OTHER -> v >= threshold

\* Does any DataPoint hold the measurement?
HasValue(points, name) == \E i \in 1..Len(points) : name \in DOMAIN points[i]

\* The aggregate a metric declares for a measurement: the peer counts are
\* judged by the smallest count observed, every other measurement by its
\* most recent value.
DeclaredAggregate(name) == IF name \in {"PeerCount", "Count"} THEN "min" ELSE "last"

\* An evaluator that only ever looks at the most recent value.
RelevantValueLast(points, name) == LastValue(points, name, 0)

\* The value of `name` a condition is applied to (some DataPoint holds it).
RelevantValue(points, name) ==
    IF DeclaredAggregate(name) = "min"
    THEN LET vs == {points[i][name] : i \in {k \in 1..Len(points) : name \in DOMAIN points[k]}}
         IN  CHOOSE m \in vs : \A v \in vs : m <= v
    ELSE LastValue(points, name, 0)

\* An evaluator in which the last matching condition overwrites the earlier ones.
LastMatch(points, conds, name) ==
    LET hits == {i \in 1..Len(conds) :
                    /\ conds[i].name = name
                    /\ HasValue(points, name)
                    /\ Holds(conds[i].op, RelevantValue(points, name), conds[i].threshold)}
    IN  IF hits = {} THEN 0 ELSE CHOOSE i \in hits : \A j \in hits : i >= j

\* The index of the first condition on `name` that the relevant value of
\* `name` satisfies, 0 when there is none (or no value).
FirstMatch(points, conds, name) ==
    LET hits == {i \in 1..Len(conds) :
                    /\ conds[i].name = name
                    /\ HasValue(points, name)
                    /\ Holds(conds[i].op, RelevantValue(points, name), conds[i].threshold)}
    IN  IF hits = {} THEN 0 ELSE CHOOSE i \in hits : \A j \in hits : i <= j

\* An evaluator that reports Unhealthy on any match, whatever its severity.
EvaluateMetricAnyMatch(points, conds) ==
    LET names == {conds[i].name : i \in 1..Len(conds)}
        matched == {n \in names : FirstMatch(points, conds, n) # 0}
    IN  [health |-> IF matched # {} THEN "Unhealthy" ELSE "Healthy",
         severity |-> [n \in matched |-> conds[FirstMatch(points, conds, n)].severity]]

\* Base.EvaluateMetric: conditions in declared order, the first match of a
\* measurement gives its severity; Unhealthy iff some severity is High.
EvaluateMetric(points, conds) ==
    LET names == {conds[i].name : i \in 1..Len(conds)}
        matched == {n \in names : FirstMatch(points, conds, n) # 0}
        severity == [n \in matched |-> conds[FirstMatch(points, conds, n)].severity]
    IN  [health |-> IF \E n \in matched : severity[n] = "High"
                    THEN "Unhealthy" ELSE "Healthy",
         severity |-> severity]

\* ------------------------------------------------------------ Service.Start

\* A Start that does not block on the context.
CtxDoneNoWait == TRUE

\* <-ctx.Done() is ready.
CtxDone == cancelled

\* `range s.metrics` visits the groups in an order the runtime picks and the
\* collectors of a group in slice order: c can be the loop's next position
\* when its predecessors in its group are done and no other group is half done.
NextInRange(c, done) ==
    /\ c \in Enabled \ done
    /\ LET g == GroupOf(c)
           i == CHOOSE k \in 1..Len(metrics[g]) : metrics[g][k] = c
       IN  /\ \A j \in 1..(i - 1) : metrics[g][j] \in done
           /\ \A h \in DOMAIN metrics \ {g} :
                 \/ Range(metrics[h]) \subseteq done
                 \/ Range(metrics[h]) \cap done = {}

NoPending == [c |-> "none", health |-> "", severity |-> <<>>]

\* go metric.Measure(ctx) at the loop's next position.
StartLaunch(c) ==
    /\ ~Crashed
    /\ pcOrch = "launch"
    /\ NextInRange(c, launched)
    /\ launched' = launched \cup {c}
    /\ pcM' = [pcM EXCEPT ![c] = "select"]
    /\ UNCHANGED <<sideVars, metrics, cancelled, pcOrch, evaluated, pending, records, renders, readers,
                   stage, resp, collectorVars>>

\* The launch loop is over: Start blocks on <-ctx.Done().
StartBlock ==
    /\ ~Crashed
    /\ pcOrch = "launch"
    /\ launched = Enabled
    /\ pcOrch' = "wait"
    /\ UNCHANGED <<sideVars, metrics, cancelled, launched, evaluated, pending, records, renders,
                   readers, pcM, stage, resp, collectorVars>>

\* <-ctx.Done() returns: the report loop begins.
StartCtxDone ==
    /\ ~Crashed
    /\ pcOrch = "wait"
    /\ CtxDone
    /\ pcOrch' = "eval"
    /\ UNCHANGED <<sideVars, metrics, cancelled, launched, evaluated, pending, records, renders,
                   readers, pcM, stage, resp, collectorVars>>

\* health, severity := m.EvaluateMetric() at the report loop's next position.
StartEvaluate(c) ==
    /\ ~Crashed
    /\ pcOrch = "eval"
    /\ pending.c = "none"
    /\ NextInRange(c, evaluated)
    /\ LET e == EvaluateMetric(store[c], HealthConditions(c))
       IN  pending' = [c |-> c, health |-> e.health, severity |-> e.severity]
    /\ readers' = [readers EXCEPT ![c] = @ \cup {Orchestrator}]
    /\ UNCHANGED <<sideVars, metrics, cancelled, pcOrch, launched, evaluated, records, renders,
                   pcM, stage, resp, collectorVars>>

\* s.report.AddRecord(report.Record{... Value: m.AggregateResults() ...}):
\* a panic in AggregateResults ends the process before the Record is added.
StartAddRecord ==
    /\ ~Crashed
    /\ pcOrch = "eval"
    /\ pending.c # "none"
    /\ LET c == pending.c
           value == AggregateResults(c)
       IN  /\ readers' = [readers EXCEPT ![c] = @ \cup {Orchestrator}]
           /\ IF value.kind = "panic"
              THEN /\ pcOrch' = "panicked"
                   /\ UNCHANGED <<records, evaluated, pending>>
              ELSE /\ records' = Append(records,
                          [GroupName |-> GroupOf(c), MetricName |-> GetName(c),
                           Value |-> value,
                           Health |-> pending.health, Severity |-> pending.severity])
                   /\ evaluated' = evaluated \cup {c}
                   /\ pending' = NoPending
                   /\ UNCHANGED pcOrch
    /\ UNCHANGED <<sideVars, metrics, cancelled, launched, renders, pcM, stage, resp, collectorVars>>

\* s.report.Render() after the report loop.
StartRender ==
    /\ ~Crashed
    /\ pcOrch = "eval"
    /\ pending.c = "none"
    /\ evaluated = Enabled
    /\ renders' = renders + 1
    /\ pcOrch' = "done"
    /\ UNCHANGED <<sideVars, metrics, cancelled, launched, evaluated, pending, records, readers,
                   pcM, stage, resp, collectorVars>>

\* The run context is cancelled: its timeout elapses or the shutdown handler
\* calls cancel().
Cancel ==
    /\ ~Crashed
    /\ ~cancelled
    /\ cancelled' = TRUE
    /\ UNCHANGED <<sideVars, metrics, pcM, stage, resp, orchVars, collectorVars>>

\* ------------------------------------------------------------ specification

\* No result in hand.
NoResult == [done |-> FALSE, value |-> 0]

NoVerdict == [done |-> FALSE, health |-> "", severity |-> <<>>]

\* The clock at the start of a run and the callers of the pure functions
\* before any call.
ClockIdle ==
    /\ now = 0
    /\ tickC = [c \in Collectors |-> FALSE]
    /\ probeAge = [c \in Collectors |-> 0]

CalcIdle == pctValues = <<>> /\ pctP = 0 /\ pctResult = NoResult

EvalIdle == evPoints = <<>> /\ evConds = <<>> /\ evVerdict = NoVerdict

\* No configuration in hand.
NoConfig == [flags |-> {}, addr |-> <<>>, network |-> ""]

NoValidation == [done |-> FALSE, isValid |-> FALSE, err |-> FALSE]

NoLoad == [done |-> FALSE, isNil |-> TRUE, metrics |-> <<>>, err |-> FALSE]

\* The exporter before startMonitoring is called.
MonitorIdle ==
    /\ monPc = "select"
    /\ monTicker = FALSE
    /\ monTicks = 0
    /\ monCtxDone = FALSE
    /\ collected = <<>>
    /\ gauges = [cpuUser |-> 0, cpuSystem |-> 0, memUsed |-> 0, memFree |-> 0,
                 memTotal |-> 0, memCached |-> 0, diskUsed |-> 0, diskAvail |-> 0,
                 netSent |-> 0, netReceived |-> 0]
    /\ prevCounters = [prevUser |-> 0, prevSystem |-> 0, prevTotal |-> 0]

\* The table before runRealTimeMetrics is called.
TableIdle ==
    /\ tablePc = "consensus"
    /\ round = 1
    /\ shown = <<>>

ToolsIdle == MonitorIdle /\ TableIdle

\* The benchmark command has handed over to the service.
RunIdle ==
    /\ config = NoConfig
    /\ pcRun = "started"
    /\ validateResult = NoValidation
    /\ loadResult = NoLoad

\* The service New returns, and its collectors as constructed.
ServiceNew ==
    /\ cancelled = FALSE
    /\ launched = {}
    /\ evaluated = {}
    /\ pending = NoPending
    /\ records = <<>>
    /\ renders = 0
    /\ pcM = [t \in Collectors |-> "none"]
    /\ stage = [t \in Collectors |-> 1]
    /\ resp = [t \in Collectors |-> NoResp]
    /\ store = [c \in Collectors |-> <<>>]
    /\ writers = [c \in Collectors |-> {}]
    /\ readers = [c \in Collectors |-> {}]
    /\ durations = [c \in {"ConsLatency", "ExecLatency"} |-> <<>>]
    /\ measuringErrors = {}
    /\ cpuPrev = [prevUser |-> 0, prevSystem |-> 0, total |-> 0]

\* The service's state when Start is called.
ServiceInit ==
    /\ pcOrch = "launch"
    /\ ServiceNew

\* The configurations: the sets of metric flags enabled together.
FlagSets == {f \in SUBSET Collectors : Cardinality(f) <= MaxEnabled}

Init ==
    /\ \E f \in FlagSets : metrics = LoadEnabledMetrics(f)
    /\ ServiceInit
    /\ interval = [c \in Collectors |-> ConfiguredInterval(c)]
    /\ ClockIdle
    /\ CalcIdle
    /\ EvalIdle
    /\ RunIdle
    /\ ToolsIdle

Next ==
    \/ \E c \in Collectors : StartLaunch(c)
    \/ StartBlock
    \/ StartCtxDone
    \/ \E c \in Collectors : StartEvaluate(c)
    \/ StartAddRecord
    \/ StartRender
    \/ Cancel
    \/ \E t \in Collectors : MeasureTick(t)
    \/ \E t \in Collectors : MeasureStop(t)
    \/ \E t \in Collectors : ProbeReturns(t)
    \/ \E t \in Collectors : ProbeHangs(t)
    \/ \E t \in Collectors : ConsPeersMeasure(t)
    \/ \E t \in Collectors : ExecPeersMeasure(t)
    \/ \E t \in Collectors : LatencyMeasure(t)
    \/ \E t \in Collectors : CPUMeasure(t)
    \/ \E t \in Collectors : MemoryMeasure(t)
    \/ \E t \in Collectors : ClientMeasure(t)

Spec == Init /\ [][Next]_vars

\* The goroutines the Go scheduler keeps running: Start and every launched
\* Measure take their next step when one stays possible.
StartNext ==
    \/ \E c \in Collectors : StartLaunch(c)
    \/ StartBlock
    \/ StartCtxDone
    \/ \E c \in Collectors : StartEvaluate(c)
    \/ StartAddRecord
    \/ StartRender

MeasureNext(t) ==
    \/ MeasureTick(t)
    \/ MeasureStop(t)
    \/ ProbeReturns(t)
    \/ ProbeHangs(t)
    \/ ConsPeersMeasure(t)
    \/ ExecPeersMeasure(t)
    \/ LatencyMeasure(t)
    \/ CPUMeasure(t)
    \/ MemoryMeasure(t)
    \/ ClientMeasure(t)

FairSpec ==
    /\ Spec
    /\ WF_vars(StartNext)
    /\ \A t \in Collectors : WF_vars(MeasureNext(t))

\* ------------------------------------------------------------ the timed run

\* The seconds of a run whose clock is followed: Benchmark.Duration, after
\* which the context created by context.WithTimeout is done.
MaxTime == 3

\* The tick intervals (seconds) the collectors of such a run are constructed with.
Intervals == {1, 2}

\* case <-ticker.C of Measure's select: the buffered tick is received and the
\* tick's first probe goes out.
MeasureOnTick(t) ==
    /\ ~Crashed
    /\ pcM[t] = "select"
    /\ tickC[t]
    /\ tickC' = [tickC EXCEPT ![t] = FALSE]
    /\ probeAge' = [probeAge EXCEPT ![t] = 0]
    /\ pcM' = [pcM EXCEPT ![t] = "probing"]
    /\ stage' = [stage EXCEPT ![t] = 1]
    /\ UNCHANGED <<now, interval, calcVars, evalVars, runVars, toolVars, metrics, cancelled, resp, orchVars,
                   collectorVars>>

\* Is goroutine t's ticker running (time.NewTicker called, Stop not yet)?
TickerOn(t) == pcM[t] \in {"select", "probing", "handling", "hung"}

\* One second passes. The goroutines' own steps take no time: the clock moves
\* only when every Measure is parked in its select with nothing to receive or
\* waits for a probe that has not reached its deadline. Each running ticker
\* whose period ends buffers a tick (a tick already buffered is kept, the new
\* one dropped), and at MaxTime the run context is done.
Tock ==
    /\ ~Crashed
    /\ pcOrch # "launch"
    /\ now < MaxTime
    /\ \A t \in Enabled :
          /\ pcM[t] # "handling"
          /\ ~(pcM[t] = "select" /\ (tickC[t] \/ cancelled))
          /\ (pcM[t] = "probing" /\ ProbeTimeout(Recv(t), interval[t]).bounded) =>
                probeAge[t] < ProbeTimeout(Recv(t), interval[t]).after
    /\ now' = now + 1
    /\ tickC' = [t \in Collectors |->
                    IF TickerOn(t) /\ (now + 1) % interval[t] = 0 THEN TRUE ELSE tickC[t]]
    /\ probeAge' = [t \in Collectors |->
                       IF pcM[t] \in {"probing", "hung"} THEN probeAge[t] + 1 ELSE probeAge[t]]
    /\ cancelled' = (now + 1 = MaxTime)
    /\ UNCHANGED <<interval, calcVars, evalVars, runVars, toolVars, metrics, pcM, stage, resp, orchVars,
                   collectorVars>>

\* The metric flags enabled together in a run whose clock is followed.
MaxTimed == 1

\* A run whose collectors are constructed with any of the intervals.
TimedInit ==
    /\ \E f \in {g \in FlagSets : Cardinality(g) <= MaxTimed} :
          /\ metrics = LoadEnabledMetrics(f)
          /\ \E iv \in [f -> Intervals] :
                interval = [c \in Collectors |->
                               IF c \in f THEN iv[c] ELSE ConfiguredInterval(c)]
    /\ ServiceInit
    /\ ClockIdle
    /\ CalcIdle
    /\ EvalIdle
    /\ RunIdle
    /\ ToolsIdle

TimedNext ==
    \/ \E c \in Collectors : StartLaunch(c)
    \/ StartBlock
    \/ StartCtxDone
    \/ \E c \in Collectors : StartEvaluate(c)
    \/ StartAddRecord
    \/ StartRender
    \/ Tock
    \/ \E t \in Collectors : MeasureOnTick(t)
    \/ \E t \in Collectors : MeasureStop(t)
    \/ \E t \in Collectors : ProbeReturns(t)
    \/ \E t \in Collectors : ProbeHangs(t)
    \/ \E t \in Collectors : ConsPeersMeasure(t)
    \/ \E t \in Collectors : ExecPeersMeasure(t)
    \/ \E t \in Collectors : LatencyMeasure(t)
    \/ \E t \in Collectors : CPUMeasure(t)
    \/ \E t \in Collectors : MemoryMeasure(t)
    \/ \E t \in Collectors : ClientMeasure(t)

TimedSpec == TimedInit /\ [][TimedNext]_vars

\* ------------------------------------------------- calls of the calculator

\* The longest slice handed to CalculatePercentiles.
MaxLen == 3

\* The values the slices hold.
SampleValues == {0, 1, 2, 7}

\* The percentiles asked for.
Percentiles == 0..100

\* The sequences over a set, up to a length.
SeqsUpTo(S, n) == UNION {[1..k -> S] : k \in 0..n}

\* A caller holds a slice and a percentile.
CalcInit ==
    /\ pctValues \in SeqsUpTo(SampleValues, MaxLen)
    /\ pctP \in Percentiles
    /\ pctResult = NoResult
    /\ metrics = LoadEnabledMetrics({})
    /\ ServiceInit
    /\ interval = [c \in Collectors |-> ConfiguredInterval(c)]
    /\ ClockIdle
    /\ EvalIdle
    /\ RunIdle
    /\ ToolsIdle

\* percentiles := metric.CalculatePercentiles(values, p); percentiles[p]:
\* the function sorts a copy, so the caller's slice is as it was.
Calculate ==
    /\ ~pctResult.done
    /\ pctResult' = [done |-> TRUE, value |-> CalculatePercentiles(pctValues, pctP)]
    /\ UNCHANGED <<pctValues, pctP, clockVars, evalVars, runVars, toolVars, serviceVars>>

CalcNext == Calculate

CalcSpec == CalcInit /\ [][CalcNext]_vars

\* -------------------------------------------------- calls of the evaluator

\* The longest store EvaluateMetric is called on.
MaxPoints == 4

\* The tiered conditions of the health evaluator's own example.
XConds ==
    <<[name |-> "X", threshold |-> 90, op |-> ">=", severity |-> "High"],
      [name |-> "X", threshold |-> 70, op |-> ">=", severity |-> "Medium"]>>

\* The condition lists evaluated: the example's, the peer count's, the memory's.
CondLists == {XConds, HealthConditions("ConsPeers"), HealthConditions("Memory")}

\* The DataPoints a store evaluated against a condition list may hold.
PointsFor(conds) ==
    CASE conds = XConds -> {[X |-> v] : v \in {10, 75, 95}} \cup {[Other |-> 0]}
      [] conds = HealthConditions("ConsPeers") -> {[PeerCount |-> v] : v \in {5, 10, 40, 50}}
      [] OTHER -> {[Free |-> v] : v \in {0, 1048576}} \cup {[Other |-> 0]}

\* A collector with its conditions and a store of DataPoints.
EvalInit ==
    /\ evConds \in CondLists
    /\ evPoints \in SeqsUpTo(PointsFor(evConds), MaxPoints)
    /\ evVerdict = NoVerdict
    /\ metrics = LoadEnabledMetrics({})
    /\ ServiceInit
    /\ interval = [c \in Collectors |-> ConfiguredInterval(c)]
    /\ ClockIdle
    /\ CalcIdle
    /\ RunIdle
    /\ ToolsIdle

\* health, severity := m.EvaluateMetric(): pure, the store is as it was.
Evaluate ==
    /\ ~evVerdict.done
    /\ LET e == EvaluateMetric(evPoints, evConds)
       IN  evVerdict' = [done |-> TRUE, health |-> e.health, severity |-> e.severity]
    /\ UNCHANGED <<evPoints, evConds, clockVars, calcVars, runVars, toolVars, serviceVars>>

EvalNext == Evaluate

EvalSpec == EvalInit /\ [][EvalNext]_vars

\* ------------------------------------------------- the benchmark command

\* The sections of the configuration that name a client by address.
Sections == {"BeaconNode", "ExecutionNode", "ValidatorClient"}

\* The metric flags Benchmark.Validate looks at to decide whether a section
\* is in use.
SectionFlags(s) ==
    CASE s = "BeaconNode" ->
            {"ConsPeers", "ConsAttestation", "ConsClient", "ConsLatency", "ConsSyncStatus"}
      [] s = "ExecutionNode" -> {"ExecPeers", "ExecLatency"}
      [] OTHER -> {"VcProposals", "VcAttestations", "VcDuties"}

\* The metric flags of the benchmark command, by subsystem: the flags
\* LoadEnabledMetrics reads.
ConsensusFlags == {"ConsClient", "ConsLatency", "ConsPeers", "ConsAttestation"}

ExecutionFlags == {"ExecPeers", "ExecLatency"}

InfrastructureFlags == {"CPU", "Memory"}

LoadFlags == ConsensusFlags \cup ExecutionFlags \cup InfrastructureFlags

AllFlags == LoadFlags \cup UNION {SectionFlags(s) : s \in Sections}

\* The addresses a configuration file holds: a URL with a trailing slash, a
\* host:port without a scheme, nothing.
Addresses == {"http://node:5052/", "127.0.0.1:5052", ""}

\* The network names a configuration file holds.
Networks == {"mainnet", "nonet"}

\* The configurations the command is run with.
Configs ==
    {[flags |-> f, addr |-> a, network |-> n] :
        f \in {g \in SUBSET AllFlags : Cardinality(g) <= MaxEnabled},
        a \in [Sections -> Addresses],
        n \in Networks}

\* sanitizeURL: a malformed address is an error, a well-formed one comes back
\* in canonical form.
sanitizeURL(addr) ==
    CASE addr = "http://node:5052/" -> [err |-> FALSE, url |-> "http://node:5052"]
      [] addr = "http://node:5052" -> [err |-> FALSE, url |-> "http://node:5052"]
      [] OTHER -> [err |-> TRUE, url |-> ""]

\* network.Name.Validate: an unknown network is an error.
NetworkValidate(name) == [err |-> name # "mainnet"]

\* AddrURL: url.Parse of the section's address. url.Parse accepts the empty
\* string and rejects a scheme-less address whose first path segment holds a
\* colon.
AddrURL(addr) == [err |-> addr = "127.0.0.1:5052"]

\* A Validate that sanitizes a section's address whether or not any of its
\* metrics is enabled.
ValidateSectionUnguarded(b, s) ==
    LET r == sanitizeURL(b.addr[s])
    IN  IF r.err THEN [err |-> TRUE, b |-> b]
        ELSE [err |-> FALSE, b |-> [b EXCEPT !.addr[s] = r.url]]

\* One section's block of Benchmark.Validate: when any of the section's
\* metrics is enabled the address is sanitized; an error returns, success
\* stores the sanitized address.
ValidateSection(b, s) ==
    IF SectionFlags(s) \cap b.flags # {}
    THEN LET r == sanitizeURL(b.addr[s])
         IN  IF r.err THEN [err |-> TRUE, b |-> b]
             ELSE [err |-> FALSE, b |-> [b EXCEPT !.addr[s] = r.url]]
    ELSE [err |-> FALSE, b |-> b]

\* A Validate without the network check.
ValidateSkipsNetwork(b) ==
    LET s1 == ValidateSection(b, "BeaconNode")
        s2 == ValidateSection(s1.b, "ExecutionNode")
        s3 == ValidateSection(s2.b, "ValidatorClient")
    IN  IF s1.err THEN [isValid |-> FALSE, err |-> TRUE, b |-> s1.b]
        ELSE IF s2.err THEN [isValid |-> FALSE, err |-> TRUE, b |-> s2.b]
        ELSE IF s3.err THEN [isValid |-> FALSE, err |-> TRUE, b |-> s3.b]
        ELSE [isValid |-> TRUE, err |-> FALSE, b |-> s3.b]

\* Benchmark.Validate (pointer receiver): the three sections in order, then
\* the network name; the first error returns (false, err) with the sections
\* before it already rewritten. b is the configuration as it leaves.
Validate(b) ==
    LET s1 == ValidateSection(b, "BeaconNode")
        s2 == ValidateSection(s1.b, "ExecutionNode")
        s3 == ValidateSection(s2.b, "ValidatorClient")
    IN  IF s1.err THEN [isValid |-> FALSE, err |-> TRUE, b |-> s1.b]
        ELSE IF s2.err THEN [isValid |-> FALSE, err |-> TRUE, b |-> s2.b]
        ELSE IF s3.err THEN [isValid |-> FALSE, err |-> TRUE, b |-> s3.b]
        ELSE IF NetworkValidate(s3.b.network).err
             THEN [isValid |-> FALSE, err |-> TRUE, b |-> s3.b]
        ELSE [isValid |-> TRUE, err |-> FALSE, b |-> s3.b]

\* The if-blocks of LoadEnabledMetrics in order: the flag read, the group
\* appended to, and the section whose AddrURL the block calls first.
LoadBlocks ==
    <<[flag |-> "ConsClient", group |-> ConsensusGroup, url |-> "none"],
      [flag |-> "ConsLatency", group |-> ConsensusGroup, url |-> "BeaconNode"],
      [flag |-> "ConsPeers", group |-> ConsensusGroup, url |-> "none"],
      [flag |-> "ConsAttestation", group |-> ConsensusGroup, url |-> "none"],
      [flag |-> "ExecPeers", group |-> ExecutionGroup, url |-> "none"],
      [flag |-> "ExecLatency", group |-> ExecutionGroup, url |-> "ExecutionNode"],
      [flag |-> "CPU", group |-> InfrastructureGroup, url |-> "none"],
      [flag |-> "Memory", group |-> InfrastructureGroup, url |-> "none"]>>

\* make(map[metric.Group][]metricService).
EmptyMetrics == [g \in {} |-> <<>>]

\* An append that starts the group's slice afresh.
AppendOverwrites(m, g, c) == (g :> <<c>>) @@ m

\* enabledMetrics[g] = append(enabledMetrics[g], c): a missing key reads as
\* the nil slice.
AppendTo(m, g, c) ==
    IF g \in DOMAIN m THEN [m EXCEPT ![g] = Append(@, c)] ELSE m @@ (g :> <<c>>)

RECURSIVE LoadFromPartial(_, _, _)
\* A loader that returns what it has built when an address does not parse.
LoadFromPartial(cfg, i, m) ==
    IF i > Len(LoadBlocks) THEN [isNil |-> FALSE, metrics |-> m, err |-> FALSE]
    ELSE LET blk == LoadBlocks[i]
         IN  IF blk.flag \notin cfg.flags THEN LoadFromPartial(cfg, i + 1, m)
             ELSE IF blk.url # "none" /\ AddrURL(cfg.addr[blk.url]).err
                  THEN [isNil |-> FALSE, metrics |-> m, err |-> TRUE]
             ELSE LoadFromPartial(cfg, i + 1, AppendTo(m, blk.group, blk.flag))

RECURSIVE LoadFrom(_, _, _)
\* LoadEnabledMetrics from its i-th block on, with the map built so far: a
\* disabled block is skipped, a latency block whose AddrURL fails returns
\* (nil, err), any other enabled block appends its collector.
LoadFrom(cfg, i, m) ==
    IF i > Len(LoadBlocks) THEN [isNil |-> FALSE, metrics |-> m, err |-> FALSE]
    ELSE LET blk == LoadBlocks[i]
         IN  IF blk.flag \notin cfg.flags THEN LoadFrom(cfg, i + 1, m)
             ELSE IF blk.url # "none" /\ AddrURL(cfg.addr[blk.url]).err
                  THEN [isNil |-> TRUE, metrics |-> EmptyMetrics, err |-> TRUE]
             ELSE LoadFrom(cfg, i + 1, AppendTo(m, blk.group, blk.flag))

\* LoadEnabledMetrics(config), block by block.
LoadEnabledMetricsFrom(cfg) == LoadFrom(cfg, 1, EmptyMetrics)

\* The part of a loaded map that the service's run follows: the collectors
\* whose Measure the repository holds (the attestation collector's is not).
Followed(m) ==
    LET kept(g) == SelectSeq(m[g], LAMBDA c : c \in Collectors)
    IN  [g \in {h \in DOMAIN m : kept(h) # <<>>} |-> kept(g)]

\* A CMD.Run that goes on whatever Validate returns.
RunValidateIgnored ==
    /\ pcRun = "validate"
    /\ LET r == Validate(config)
       IN  /\ config' = r.b
           /\ validateResult' = [done |-> TRUE, isValid |-> r.isValid, err |-> r.err]
           /\ pcRun' = "load"
    /\ UNCHANGED <<loadResult, serviceVars, clockVars, calcVars, evalVars, toolVars>>

\* isValid, err := configs.Values.Benchmark.Validate();
\* if !isValid { panic(err.Error()) }
RunValidate ==
    /\ pcRun = "validate"
    /\ LET r == Validate(config)
       IN  /\ config' = r.b
           /\ validateResult' = [done |-> TRUE, isValid |-> r.isValid, err |-> r.err]
           /\ pcRun' = IF r.isValid THEN "load" ELSE "panicked"
    /\ UNCHANGED <<loadResult, serviceVars, clockVars, calcVars, evalVars, toolVars>>

\* metrics, err := LoadEnabledMetrics(configs.Values);
\* if err != nil { panic(err.Error()) }
RunLoad ==
    /\ pcRun = "load"
    /\ LET r == LoadEnabledMetricsFrom(config)
       IN  /\ loadResult' = [done |-> TRUE, isNil |-> r.isNil, metrics |-> r.metrics,
                             err |-> r.err]
           /\ pcRun' = IF r.err THEN "panicked" ELSE "new"
    /\ UNCHANGED <<config, validateResult, serviceVars, clockVars, calcVars, evalVars, toolVars>>

\* benchmarkService := New(metrics, report.New()); go benchmarkService.Start(ctx)
RunStart ==
    /\ pcRun = "new"
    /\ metrics' = Followed(loadResult.metrics)
    /\ pcOrch' = "launch"
    /\ pcRun' = "started"
    /\ UNCHANGED <<config, validateResult, loadResult, clockVars, calcVars, evalVars, toolVars,
                   cancelled, launched, evaluated, pending, records, renders, readers,
                   pcM, stage, resp, collectorVars>>

\* Before CMD.Run has called anything: no service yet.
CommandIdle ==
    /\ config \in Configs
    /\ validateResult = NoValidation
    /\ loadResult = NoLoad
    /\ metrics = EmptyMetrics
    /\ pcOrch = "none"
    /\ ServiceNew
    /\ interval = [c \in Collectors |-> ConfiguredInterval(c)]
    /\ ClockIdle
    /\ CalcIdle
    /\ EvalIdle
    /\ ToolsIdle

RunInit == pcRun = "validate" /\ CommandIdle

RunNext ==
    \/ RunValidate
    \/ RunLoad
    \/ RunStart
    \/ \E c \in Collectors : StartLaunch(c)
    \/ StartBlock

RunSpec == RunInit /\ [][RunNext]_vars

\* A call of LoadEnabledMetrics on any configuration, validated or not.
LoadInit == pcRun = "load" /\ CommandIdle

LoadNext == RunLoad

LoadSpec == LoadInit /\ [][LoadNext]_vars

\* ------------------------------------------- the infrastructure exporter

\* The ticks the exporter's ticker fires within a run.
MaxMonitorTicks == 2

\* The counters cpu.Get() adds between two reads of the exporter: a busy
\* period and one in which the total has not moved.
MonitorCpuDeltas ==
    {[user |-> 1, system |-> 1, total |-> 4], [user |-> 0, system |-> 0, total |-> 0]}

\* The statistics (bytes) disk.Get() reads.
DiskStats == {[used |-> 1073741824, available |-> 1073741824]}

\* The per-interface counters (bytes) network.Get() reads.
NetworkStats ==
    {<<[TxBytes |-> 1048576, RxBytes |-> 2097152], [TxBytes |-> 1048576, RxBytes |-> 0]>>}

\* What a read of the operating system comes back with.
Reads(samples) == {[err |-> TRUE, data |-> 0]} \cup {[err |-> FALSE, data |-> d] : d \in samples}

\* toGigabytes.
toGigabytes(bytes) == bytes \div (1024 * 1024 * 1024)

RECURSIVE SumOf(_, _)
\* The sum of one counter over the interfaces.
SumOf(ifaces, field) ==
    IF Len(ifaces) = 0 THEN 0 ELSE Head(ifaces)[field] + SumOf(Tail(ifaces), field)

\* What a step of the exporter leaves alone.
notMonitor == <<tableVars, clockVars, calcVars, evalVars, runVars, serviceVars>>

\* One collection has run: it is noted with its outcome, and the tick goes on
\* to the next collection (or back to the select).
Collected(name, ok, next) ==
    /\ collected' = Append(collected, [name |-> name, ok |-> ok])
    /\ monPc' = next
    /\ UNCHANGED <<monTicker, monTicks, monCtxDone, notMonitor>>

\* The ticker's period ends: a tick is buffered (dropped if one already is).
MonitorTickerFires ==
    /\ monPc # "returned"
    /\ monTicks < MaxMonitorTicks
    /\ monTicks' = monTicks + 1
    /\ monTicker' = TRUE
    /\ UNCHANGED <<monPc, monCtxDone, collected, gauges, prevCounters, notMonitor>>

\* The context handed to startMonitoring is cancelled.
MonitorCancel ==
    /\ ~monCtxDone
    /\ monCtxDone' = TRUE
    /\ UNCHANGED <<monPc, monTicker, monTicks, collected, gauges, prevCounters, notMonitor>>

\* case <-ticker.C of the select (taken, when a tick is buffered, whether or
\* not the context is done as well): the tick's collections begin.
MonitorOnTick ==
    /\ monPc = "select"
    /\ monTicker
    /\ monTicker' = FALSE
    /\ monPc' = "cpu"
    /\ UNCHANGED <<monTicks, monCtxDone, collected, gauges, prevCounters, notMonitor>>

\* case <-ctx.Done() of the select: startMonitoring returns.
MonitorStop ==
    /\ monPc = "select"
    /\ monCtxDone
    /\ monPc' = "returned"
    /\ UNCHANGED <<monTicker, monTicks, monCtxDone, collected, gauges, prevCounters, notMonitor>>

\* collectCPUUsage: a failed read returns; otherwise the gauges are set when
\* there is an earlier read and the total has grown, and the counters are
\* remembered.
collectCPUUsage ==
    /\ monPc = "cpu"
    /\ \E r \in Reads(MonitorCpuDeltas) :
          /\ IF r.err
             THEN UNCHANGED <<gauges, prevCounters>>
             ELSE LET cpuStat == [User |-> prevCounters.prevUser + r.data.user,
                                  System |-> prevCounters.prevSystem + r.data.system,
                                  Total |-> prevCounters.prevTotal + r.data.total]
                      totalDelta == cpuStat.Total - prevCounters.prevTotal
                  IN  /\ gauges' =
                            IF prevCounters.prevTotal > 0 /\ totalDelta > 0
                            THEN [gauges EXCEPT
                                    !.cpuUser = ((cpuStat.User - prevCounters.prevUser) * 100)
                                                    \div totalDelta,
                                    !.cpuSystem = ((cpuStat.System - prevCounters.prevSystem) * 100)
                                                    \div totalDelta]
                            ELSE gauges
                      /\ prevCounters' = [prevUser |-> cpuStat.User,
                                          prevSystem |-> cpuStat.System,
                                          prevTotal |-> cpuStat.Total]
          /\ Collected("cpu", ~r.err, "memory")

\* collectMemoryUsage.
collectMemoryUsage ==
    /\ monPc = "memory"
    /\ \E r \in Reads(MemoryStats) :
          /\ gauges' = IF r.err THEN gauges
                       ELSE [gauges EXCEPT !.memUsed = toMegabytes(r.data.used),
                                           !.memFree = toMegabytes(r.data.free),
                                           !.memTotal = toMegabytes(r.data.total),
                                           !.memCached = toMegabytes(r.data.cached)]
          /\ Collected("memory", ~r.err, "disk")
    /\ UNCHANGED prevCounters

\* collectDiskUsage.
collectDiskUsage ==
    /\ monPc = "disk"
    /\ \E r \in Reads(DiskStats) :
          /\ gauges' = IF r.err THEN gauges
                       ELSE [gauges EXCEPT !.diskUsed = toGigabytes(r.data.used),
                                           !.diskAvail = toGigabytes(r.data.available)]
          /\ Collected("disk", ~r.err, "network")
    /\ UNCHANGED prevCounters

\* collectNetworkUsage: the last collection of the tick.
collectNetworkUsage ==
    /\ monPc = "network"
    /\ \E r \in Reads(NetworkStats) :
          /\ gauges' = IF r.err THEN gauges
                       ELSE [gauges EXCEPT
                               !.netSent = toMegabytes(SumOf(r.data, "TxBytes")),
                               !.netReceived = toMegabytes(SumOf(r.data, "RxBytes"))]
          /\ Collected("network", ~r.err, "select")
    /\ UNCHANGED prevCounters

\* go startMonitoring(ctx, interval) has been called.
MonitorInit ==
    /\ MonitorIdle
    /\ TableIdle
    /\ metrics = [g \in {} |-> <<>>]
    /\ ServiceInit
    /\ interval = [c \in Collectors |-> ConfiguredInterval(c)]
    /\ ClockIdle
    /\ CalcIdle
    /\ EvalIdle
    /\ RunIdle

\* The steps of the startMonitoring goroutine.
startMonitoring ==
    \/ MonitorOnTick
    \/ MonitorStop
    \/ collectCPUUsage
    \/ collectMemoryUsage
    \/ collectDiskUsage
    \/ collectNetworkUsage

MonitorNext ==
    \/ MonitorTickerFires
    \/ MonitorCancel
    \/ startMonitoring

\* The Go scheduler keeps the goroutine running.
MonitorSpec == MonitorInit /\ [][MonitorNext]_vars /\ WF_vars(startMonitoring)

\* ------------------------------------------------------ the metrics table

\* The iterations of runRealTimeMetrics' loop within its ten minutes.
MaxRounds == 2

\* The bodies an endpoint answers with: nothing, a Prometheus exposition, an
\* HTML page, an empty JSON object, a JSON object with one metric, a bare
\* number, something else.
Bodies ==
    {<<>>, <<"#", "m">>, <<"<", "h">>, <<"{", "}">>, <<"{", "m", "}">>, <<"7">>, <<"x">>}

\* What http.Get and ioutil.ReadAll come back with.
HttpResponses ==
    {[kind |-> k, body |-> <<>>] : k \in {"getErr", "readErr"}}
    \cup {[kind |-> "body", body |-> b] : b \in Bodies}

\* json.Unmarshal(body, &metrics) into map[string]MetricValue: the metric
\* names of a JSON object, an error for anything else.
UnmarshalMetrics(body) ==
    CASE body = <<"{", "}">> -> [err |-> FALSE, names |-> {}]
      [] body = <<"{", "m", "}">> -> [err |-> FALSE, names |-> {"m"}]
      [] OTHER -> [err |-> TRUE, names |-> {}]

\* json.Unmarshal(body, &singleMetric) into float64.
UnmarshalNumber(body) == [err |-> body # <<"7">>]

\* A result of fetchMetrics: panic is TRUE when the call does not return.
FetchResult(isNil, names, err) ==
    [panic |-> FALSE, isNil |-> isNil, names |-> names, err |-> err]

\* fetchMetrics: a failed GET or read returns (nil, err); body[0] is read
\* unguarded, which is out of range on an empty body; a body beginning with
\* '#' or '<' returns (nil, err); otherwise the body is parsed as a JSON
\* object, failing that as a number, failing that (nil, err).
fetchMetrics(r) ==
    IF r.kind = "getErr" THEN FetchResult(TRUE, {}, "failed to fetch metrics")
    ELSE IF r.kind = "readErr" THEN FetchResult(TRUE, {}, "failed to read response body")
    ELSE IF ~(0 < Len(r.body)) THEN [panic |-> TRUE, isNil |-> TRUE, names |-> {}, err |-> ""]
    ELSE IF r.body[0 + 1] = "#" \/ r.body[0 + 1] = "<"
         THEN FetchResult(TRUE, {}, "unexpected response format (not JSON)")
    ELSE IF ~UnmarshalMetrics(r.body).err
         THEN FetchResult(FALSE, UnmarshalMetrics(r.body).names, "")
    ELSE IF UnmarshalNumber(r.body).err
         THEN FetchResult(TRUE, {}, "failed to parse response as JSON or single number")
    ELSE FetchResult(FALSE, {"single_metric"}, "")

\* What a step of the table leaves alone.
notTable == <<monVars, clockVars, calcVars, evalVars, runVars, serviceVars>>

\* displayMetrics(url, groupName): an error of fetchMetrics is printed for the
\* group, otherwise one row per metric; a panic in fetchMetrics ends the
\* program.
displayMetrics(groupName, next) ==
    \E r \in HttpResponses :
        LET f == fetchMetrics(r)
        IN  IF f.panic
            THEN /\ tablePc' = "panicked"
                 /\ UNCHANGED <<round, shown, notTable>>
            ELSE /\ shown' = Append(shown, [group |-> groupName, err |-> f.err,
                                            rows |-> f.names])
                 /\ tablePc' = next
                 /\ UNCHANGED <<round, notTable>>

\* displayMetrics(benchmark.Consensus.Address, "Consensus")
DisplayConsensus == tablePc = "consensus" /\ displayMetrics("Consensus", "execution")

\* displayMetrics(benchmark.Execution.Address, "Execution")
DisplayExecution == tablePc = "execution" /\ displayMetrics("Execution", "infrastructure")

\* displaySystemMetrics("Infrastructure"): an error of fetchSystemMetrics is
\* printed, otherwise the CPU and Memory rows.
displaySystemMetrics ==
    /\ tablePc = "infrastructure"
    /\ \E e \in {"", "failed to get CPU usage", "failed to get Memory usage"} :
          shown' = Append(shown, [group |-> "Infrastructure", err |-> e,
                                  rows |-> IF e = "" THEN {"CPU", "Memory"} ELSE {}])
    /\ tablePc' = "sleep"
    /\ UNCHANGED <<round, notTable>>

\* time.Sleep(10 * time.Second), then the loop's test of the clock.
TableSleep ==
    /\ tablePc = "sleep"
    /\ IF round < MaxRounds
       THEN round' = round + 1 /\ tablePc' = "consensus"
       ELSE round' = round /\ tablePc' = "done"
    /\ UNCHANGED <<shown, notTable>>

\* runRealTimeMetrics(benchmark) has been called.
TableInit ==
    /\ TableIdle
    /\ MonitorIdle
    /\ metrics = [g \in {} |-> <<>>]
    /\ ServiceInit
    /\ interval = [c \in Collectors |-> ConfiguredInterval(c)]
    /\ ClockIdle
    /\ CalcIdle
    /\ EvalIdle
    /\ RunIdle

TableNext ==
    \/ DisplayConsensus
    \/ DisplayExecution
    \/ displaySystemMetrics
    \/ TableSleep

TableSpec == TableInit /\ [][TableNext]_vars

\* ------------------------------------------------------------------- phases

\* The phase of Service.Start: Idle while it launches, Running while it is
\* blocked on the context, Evaluating in the report loop (a panic ends the
\* process there), Rendered after Render.
Phase ==
    CASE pcOrch = "launch" -> "Idle"
      [] pcOrch = "wait" -> "Running"
      [] pcOrch \in {"eval", "panicked"} -> "Evaluating"
      [] OTHER -> "Rendered"

PhaseRank(ph) ==
    CASE ph = "Idle" -> 0
      [] ph = "Running" -> 1
      [] ph = "Evaluating" -> 2
      [] OTHER -> 3

\* Start is over: it has returned, or it has panicked.
StartEnded == pcOrch \in {"done", "panicked"}

\* The Measure goroutines running on collector c.
Tasks(c) == {t \in Collectors : pcM[t] # "none" /\ Recv(t) = c}

\* The Records the sink holds for collector c (group and name identify it).
RecordsOf(c) ==
    {i \in 1..Len(records) :
        records[i].GroupName = GroupOf(c) /\ records[i].MetricName = GetName(c)}

\* --------------------------------------------------------------- the claims

\* C1: the orchestrator reads a collector's store (EvaluateMetric,
\* AggregateResults) only after that collector's Measure has returned.
C1_ReadsOnlyAfterMeasureReturned ==
    \A c \in Collectors :
        Orchestrator \in readers[c] => \A t \in Tasks(c) : pcM[t] = "returned"

\* C2: in every run of Start Render is called exactly once, after an
\* AddRecord for every collector, and no AddRecord follows it (once Render has
\* been called the Records are those of the collectors, no more).
C2_RenderExactlyOnce ==
    /\ renders <= 1
    /\ renders = 1 =>
          /\ Len(records) = Cardinality(Enabled)
          /\ \A c \in Enabled : RecordsOf(c) # {}
    /\ StartEnded => renders = 1

\* C3: at the end of a run the sink holds exactly one Record per enabled
\* collector, carrying its group and name.
C3_OneRecordPerCollector ==
    StartEnded =>
        /\ Len(records) = Cardinality(Enabled)
        /\ \A c \in Enabled : Cardinality(RecordsOf(c)) = 1

\* C4: when evaluating or aggregating one collector fails, the Records of all
\* the other collectors are still added.
C4_OtherRecordsStillAdded ==
    pcOrch = "panicked" => \A c \in Enabled \ {pending.c} : RecordsOf(c) # {}

\* The summary of a collector's zero values.
ZeroSummary(c) ==
    CASE c = "ConsClient" ->
            [kind |-> "client", version |-> "", health |-> "", syncStatus |-> "",
             latency |-> ""]
      [] c = "CPU" -> [kind |-> "cpu", system |-> 0, user |-> 0]
      [] c = "Memory" -> [kind |-> "memory", total |-> 0, used |-> 0, cached |-> 0, free |-> 0]
      [] OTHER -> FormatPercentiles(0, 0, 0, 0, 0)

\* C5: AggregateResults on a collector whose store is empty returns the
\* summary of the type's zero values and never fails, whichever the collector
\* the report loop is at.
C5_AggregateOnEmptyStore ==
    \A c \in Enabled :
        (pending.c = c /\ store[c] = <<>>) =>
            /\ AggregateResults(c).kind # "panic"
            /\ AggregateResults(c) = ZeroSummary(c)

\* C6: Start goes through Idle, Running, Evaluating, Rendered in that order,
\* one phase at a time and never backwards, and before the context is
\* cancelled it is Idle or Running and has made no EvaluateMetric,
\* AggregateResults, AddRecord or Render call.
C6_PhasesInOrder ==
    /\ [](~cancelled =>
            /\ Phase \in {"Idle", "Running"}
            /\ \A c \in Collectors : readers[c] = {}
            /\ pending.c = "none"
            /\ records = <<>>
            /\ renders = 0)
    /\ [][PhaseRank(Phase') \in {PhaseRank(Phase), PhaseRank(Phase) + 1}]_vars

\* C6's case: a run that was cancelled and went all the way to Rendered.
C6_Witness == cancelled /\ Phase = "Rendered" /\ renders = 1 /\ Len(records) = 2

\* C7: once the context is cancelled, Start eventually reaches Rendered,
\* whatever the stores hold (runs that a panicking Measure goroutine ends are
\* left aside).
C7_EventuallyRendered ==
    cancelled ~> (Phase = "Rendered" \/ \E t \in Collectors : pcM[t] = "panicked")

\* C8: one Measure goroutine per enabled collector (none for a disabled one),
\* each store appended to by its own Measure goroutine only and read by the
\* orchestrator only.
C8_OneWriterPerStore ==
    \A c \in Collectors :
        /\ Cardinality(Tasks(c)) <= 1
        /\ c \notin Enabled => Tasks(c) = {}
        /\ (pcOrch # "launch" /\ c \in Enabled) => Cardinality(Tasks(c)) = 1
        /\ writers[c] \subseteq Tasks(c)
        /\ readers[c] \subseteq {Orchestrator}

\* C8's case: two collectors launched, a store written by its goroutine and
\* read by the orchestrator.
C8_Witness ==
    /\ Cardinality(launched) = 2
    /\ \E c \in Enabled : writers[c] # {} /\ readers[c] = {Orchestrator}

\* Did the probe whose answer goroutine t holds fail?
ProbeFailed(t) ==
    LET r == resp[t]
    IN  CASE r.kind = "ok" -> FALSE
          [] r.kind = "body" /\ Recv(t) = "ConsPeers" -> ParseInt(r.data, 10).err
          [] r.kind = "body" /\ Recv(t) = "ExecPeers" ->
                \/ Len(r.data) < 2
                \/ ParseInt(SubSeq(r.data, 3, Len(r.data)), 16).err
          [] OTHER -> TRUE

\* C9: the step that handles a tick's probe ends the tick (one probe per
\* tick) and appends exactly one DataPoint, all zero when the probe failed.
C9_OneProbeOnePointPerTick ==
    [][\A t \in Collectors :
          (pcM[t] = "handling" /\ pcM'[t] # "handling") =>
              /\ pcM'[t] = "select"
              /\ Len(store'[Recv(t)]) = Len(store[Recv(t)]) + 1
              /\ (ProbeFailed(t) /\ Recv(t) # "ConsClient") =>
                    \A n \in DOMAIN Last(store'[Recv(t)]) : Last(store'[Recv(t)])[n] = 0]_vars

\* C10: after a failed probe Measure neither returns nor panics nor repeats
\* the probe: it is back at its select (ClientMetric: at the tick's next probe).
C10_FailedProbeNeverStopsLoop ==
    [][\A t \in Collectors :
          (pcM[t] = "handling" /\ ProbeFailed(t) /\ pcM'[t] # "handling") =>
              \/ pcM'[t] = "select"
              \/ pcM'[t] = "probing" /\ stage'[t] = stage[t] + 1]_vars

\* C11: once the run context is cancelled, the Measure of every launched
\* collector eventually returns, also when a probe was in flight at the
\* cancellation (runs that a panic ends are left aside).
C11_MeasureEventuallyReturns ==
    cancelled ~> (Crashed \/ \A t \in Enabled : pcM[t] = "returned")

\* C12: a network probe in flight has a deadline, the deadline is no later
\* than the collector's tick interval, and the collector's next tick is not
\* due yet, whatever the interval the collector was constructed with.
C12_ProbeTimeoutWithinInterval ==
    \A t \in Enabled \ {"CPU", "Memory"} :
        pcM[t] = "probing" =>
            /\ ProbeTimeout(Recv(t), interval[t]).bounded
            /\ ProbeTimeout(Recv(t), interval[t]).after <= interval[t]
            /\ ~tickC[t]

\* C13: when the Measure of a collector has returned from a run of MaxTime
\* seconds, its store holds floor(MaxTime / interval) DataPoints, give or
\* take one.
C13_CountWithinOneOfFloor ==
    \A t \in Enabled :
        pcM[t] = "returned" =>
            LET n == Len(store[Recv(t)])
                f == MaxTime \div interval[t]
            IN  n >= f - 1 /\ n <= f + 1

\* C14: every step leaves each store as it was or appends one DataPoint at
\* its end (so N AddDataPoint calls leave N DataPoints, in call order), and a
\* step of the orchestrator (EvaluateMetric, AggregateResults, AddRecord,
\* Render) leaves every store as it was.
C14_StoreAppendOnly ==
    [][/\ \A c \in Collectors :
             \/ store'[c] = store[c]
             \/ /\ Len(store'[c]) = Len(store[c]) + 1
                /\ SubSeq(store'[c], 1, Len(store[c])) = store[c]
       /\ (readers' # readers \/ pending' # pending \/ records' # records
              \/ renders' # renders) => store' = store]_vars

\* C14's case: a store of several DataPoints that the orchestrator has
\* evaluated and aggregated into a Record.
C14_Witness ==
    \E c \in Enabled :
        Len(store[c]) >= 2 /\ Orchestrator \in readers[c] /\ RecordsOf(c) # {}

\* The rank ceil(p/100 * n) of percentile p among n values, at least 1.
NearestRank(p, n) ==
    CHOOSE k \in 1..n : k * 100 >= p * n /\ (k = 1 \/ (k - 1) * 100 < p * n)

\* C15: on a non-empty slice CalculatePercentiles returns the value of rank
\* ceil(p/100 * n) in ascending order (an element of the slice with fewer
\* than rank values below it and at least rank values up to it), hence the
\* minimum for p = 0 and the maximum for p = 100; no smaller percentile gives
\* a larger value; and the caller's slice is never reordered.
C15_NearestRank ==
    /\ []((pctResult.done /\ Len(pctValues) > 0) =>
            LET n == Len(pctValues)
                v == pctResult.value
                below == Cardinality({i \in 1..n : pctValues[i] < v})
                upto == Cardinality({i \in 1..n : pctValues[i] <= v})
            IN  /\ \E i \in 1..n : pctValues[i] = v
                /\ below < NearestRank(pctP, n)
                /\ NearestRank(pctP, n) <= upto
                /\ pctP = 0 => \A i \in 1..n : v <= pctValues[i]
                /\ pctP = 100 => \A i \in 1..n : v >= pctValues[i]
                /\ \A q \in 0..pctP : CalculatePercentiles(pctValues, q) <= v)
    /\ [][pctValues' = pctValues]_vars

\* C15's case: the median of three values that are not in ascending order.
C15_Witness ==
    /\ pctResult.done
    /\ pctP = 50
    /\ Len(pctValues) = 3
    /\ pctValues[1] > pctValues[2]
    /\ pctValues[2] < pctValues[3]

\* C16: on an empty slice CalculatePercentiles returns the zero value,
\* whatever the percentile.
C16_EmptyGivesZero ==
    (pctResult.done /\ pctValues = <<>>) => pctResult.value = 0

\* C16's case: the 90th percentile of an empty slice has been asked for.
C16_Witness == pctResult.done /\ pctValues = <<>> /\ pctP = 90

\* The conditions on measurement n that the value judged satisfies.
Matching(n) ==
    {i \in 1..Len(evConds) :
        /\ evConds[i].name = n
        /\ HasValue(evPoints, n)
        /\ Holds(evConds[i].op, RelevantValue(evPoints, n), evConds[i].threshold)}

\* C17: a measurement's severity is that of the first condition, in declared
\* order, that matches, and a measurement that matches none has no severity;
\* with [X >= 90 High, X >= 70 Medium], X = 95 gives High, X = 75 gives Medium
\* and X = 10 gives Healthy with no severity.
C17_FirstMatchWins ==
    evVerdict.done =>
        /\ \A n \in {evConds[i].name : i \in 1..Len(evConds)} :
              IF Matching(n) = {}
              THEN n \notin DOMAIN evVerdict.severity
              ELSE /\ n \in DOMAIN evVerdict.severity
                   /\ \A i \in Matching(n) :
                         (\A j \in Matching(n) : i <= j) =>
                             evVerdict.severity[n] = evConds[i].severity
        /\ (evConds = XConds /\ HasValue(evPoints, "X")) =>
              LET x == LastValue(evPoints, "X", 0)
              IN  /\ x = 95 => evVerdict.severity["X"] = "High"
                  /\ x = 75 => evVerdict.severity["X"] = "Medium"
                  /\ x = 10 => /\ "X" \notin DOMAIN evVerdict.severity
                               /\ evVerdict.health = "Healthy"

\* C17's case: X = 95, which both conditions match, has been evaluated.
C17_Witness ==
    /\ evVerdict.done
    /\ evConds = XConds
    /\ HasValue(evPoints, "X")
    /\ LastValue(evPoints, "X", 0) = 95

\* C18: the status is Unhealthy exactly when some measurement's severity is
\* High; Medium and Low leave it Healthy.
C18_UnhealthyIffHigh ==
    evVerdict.done =>
        /\ evVerdict.health \in {"Healthy", "Unhealthy"}
        /\ evVerdict.health = "Unhealthy" <=>
              \E n \in DOMAIN evVerdict.severity : evVerdict.severity[n] = "High"

\* C18's case: a Medium severity in a Healthy verdict.
C18_Witness ==
    /\ evVerdict.done
    /\ evVerdict.health = "Healthy"
    /\ \E n \in DOMAIN evVerdict.severity : evVerdict.severity[n] = "Medium"

\* The peer counts recorded, in order.
PeerCounts == [i \in 1..Len(evPoints) |-> evPoints[i].PeerCount]

C22_NoProbeErrorInRecord ==
    /\ pending.c # "none" => AggregateResults(pending.c).kind # "error"
    /\ \A i \in 1..Len(records) : records[i].Value.kind # "error"

\* C29: once the run context is cancelled no store grows any more; a
\* consensus peer-count request that the cancellation aborts leaves no zero
\* PeerCount behind.
C29_NoAppendAfterCancel ==
    [][cancelled => store' = store]_vars

\* C30: the execution PeerMetric's AggregateResults is the UNABLE_TO_MEASURE
\* text from the step in which a probe's empty net_peerCount result is handled
\* and for ever after, whatever later probes return; no other step records
\* the error, and without it the result is the formatted percentiles of all
\* Count values.
C30_ErrorIffEmptyResult ==
    [][LET emptyHandled ==
               \E t \in Collectors :
                   /\ Recv(t) = "ExecPeers"
                   /\ pcM[t] = "handling"
                   /\ pcM'[t] = "select"
                   /\ resp[t].kind = "body"
                   /\ resp[t].data = <<>>
           before == AggregateResults("ExecPeers")
           after == ExecPeersAggregateResults(store'["ExecPeers"], measuringErrors')
           counts == [i \in 1..Len(store'["ExecPeers"]) |-> store'["ExecPeers"][i].Count]
       IN  /\ emptyHandled => after.kind = "error"
           /\ before.kind = "error" => after.kind = "error"
           /\ (before.kind # "error" /\ ~emptyHandled) =>
                 after = FormatPercentiles(CalculatePercentiles(counts, 0),
                                           CalculatePercentiles(counts, 10),
                                           CalculatePercentiles(counts, 50),
                                           CalculatePercentiles(counts, 90),
                                           CalculatePercentiles(counts, 100))
           /\ after.kind = "error" => after.text = "UNABLE_TO_MEASURE"]_vars

\* An empty result was recorded, a later probe counted peers, and the Record
\* Start added carries the error text.
C30_Witness ==
    /\ measuringErrors # {}
    /\ Len(store["ExecPeers"]) >= 2
    /\ Last(store["ExecPeers"]).Count > 0
    /\ \E i \in 1..Len(records) :
          records[i].MetricName = "Peers" /\ records[i].Value.kind = "error"

\* C24: ClientMetric.AggregateResults reports for Version, NodeHealth,
\* SyncStatus and Latency the value of the DataPoint with the greatest index
\* among those holding the measurement, "" when no DataPoint holds it.
C24_ClientReportsLastValues ==
    LET points == store["ConsClient"]
        held(name) == {i \in 1..Len(points) : name \in DOMAIN points[i]}
        newest(name) == CHOOSE i \in held(name) : \A j \in held(name) : j <= i
        expected(name) == IF held(name) = {} THEN "" ELSE points[newest(name)][name]
        agg == AggregateResults("ConsClient")
    IN  /\ agg.version = expected("Version")
        /\ agg.health = expected("NodeHealth")
        /\ agg.syncStatus = expected("SyncStatus")
        /\ agg.latency = expected("Latency")

\* Two ticks of ClientMetric measured different health, and the Record Start
\* added reports the second.
C24_Witness ==
    LET points == store["ConsClient"]
    IN  /\ Len(points) >= 5
        /\ points[1].NodeHealth # points[5].NodeHealth
        /\ \E i \in 1..Len(records) :
              /\ records[i].MetricName = "Client"
              /\ records[i].Value.health = points[5].NodeHealth

\* C23: for both latency collectors, what Start gets from AggregateResults is
\* the formatted min/p10/p50/p90/max of all recorded durations; there are as
\* many DataPoints as durations; each DataPoint has Min <= P10 <= P50 <= P90
\* <= Max; and from one DataPoint to the next Min never grows and Max never
\* shrinks.
C23_LatencySummaryOverAllDurations ==
    [][\A c \in {"ConsLatency", "ExecLatency"} :
          LET points == store'[c]
              ds == durations'[c]
          IN  /\ pending'.c = c =>
                    AggregateResults(c)' =
                        FormatPercentiles(CalculatePercentiles(ds, 0),
                                          CalculatePercentiles(ds, 10),
                                          CalculatePercentiles(ds, 50),
                                          CalculatePercentiles(ds, 90),
                                          CalculatePercentiles(ds, 100))
              /\ Len(points) = Len(ds)
              /\ \A i \in 1..Len(points) :
                    /\ points[i].DurationMin <= points[i].DurationP10
                    /\ points[i].DurationP10 <= points[i].DurationP50
                    /\ points[i].DurationP50 <= points[i].DurationP90
                    /\ points[i].DurationP90 <= points[i].DurationMax
              /\ \A i \in 1..(Len(points) - 1) :
                    /\ points[i + 1].DurationMin <= points[i].DurationMin
                    /\ points[i + 1].DurationMax >= points[i].DurationMax]_vars

\* C21: in the benchmark command a collector's Measure is invoked only after
\* Benchmark.Validate and LoadEnabledMetrics have both returned without an
\* error; when either reports one the command has halted and no Measure has
\* been, or will be, invoked.
C21_ValidatedAndLoadedBeforeLaunch ==
    LET failed == \/ validateResult.done /\ ~validateResult.isValid
                  \/ loadResult.done /\ loadResult.err
    IN  /\ (pcOrch # "none" \/ \E t \in Collectors : pcM[t] # "none") =>
              /\ validateResult.done /\ validateResult.isValid
              /\ loadResult.done /\ ~loadResult.err
        /\ failed =>
              /\ pcRun = "panicked"
              /\ pcOrch = "none"
              /\ \A t \in Collectors : pcM[t] = "none"

\* A validated and loaded configuration with two metrics, both launched.
C21_Witness ==
    /\ Cardinality(config.flags) = 2
    /\ launched = config.flags
    /\ \A t \in launched : pcM[t] = "select"

\* C25: when LoadEnabledMetrics succeeds, its map holds each enabled flag's
\* collector exactly once, under the flag's group, nothing for a disabled
\* flag, and no entry for a group none of whose flags is enabled.
C25_OneCollectorPerEnabledFlag ==
    (loadResult.done /\ ~loadResult.err) =>
        LET m == loadResult.metrics
            flagsOf(g) == CASE g = ConsensusGroup -> ConsensusFlags
                            [] g = ExecutionGroup -> ExecutionFlags
                            [] OTHER -> InfrastructureFlags
            places(f) == {<<g, i>> \in Groups \X (1..Cardinality(LoadFlags)) :
                             g \in DOMAIN m /\ i <= Len(m[g]) /\ m[g][i] = f}
        IN  /\ ~loadResult.isNil
            /\ DOMAIN m \subseteq Groups
            /\ \A g \in Groups :
                  /\ g \in DOMAIN m <=> flagsOf(g) \cap config.flags # {}
                  /\ g \in DOMAIN m => Range(m[g]) = flagsOf(g) \cap config.flags
            /\ \A f \in LoadFlags :
                  Cardinality(places(f)) = IF f \in config.flags THEN 1 ELSE 0

\* Two metrics of one group were enabled and loaded.
C25_Witness ==
    /\ loadResult.done
    /\ ~loadResult.err
    /\ \E g \in DOMAIN loadResult.metrics : Len(loadResult.metrics[g]) = 2

\* C26: with a latency metric enabled whose client address url.Parse rejects,
\* LoadEnabledMetrics returns the nil map and an error; an error never comes
\* with a map; and with no latency metric enabled it returns no error
\* whatever the addresses are.
C26_LatencyAddressErrorGivesNilMap ==
    loadResult.done =>
        LET badCons == "ConsLatency" \in config.flags /\ AddrURL(config.addr["BeaconNode"]).err
            badExec == "ExecLatency" \in config.flags /\ AddrURL(config.addr["ExecutionNode"]).err
        IN  /\ (badCons \/ badExec) => loadResult.err
            /\ loadResult.err => loadResult.isNil /\ DOMAIN loadResult.metrics = {}
            /\ config.flags \cap {"ConsLatency", "ExecLatency"} = {} => ~loadResult.err

\* The consensus client metric was enabled too, its block had already
\* appended when the latency block's address failed to parse.
C26_Witness ==
    /\ loadResult.done
    /\ loadResult.err
    /\ config.flags = {"ConsClient", "ConsLatency"}

\* C27: Benchmark.Validate returns (true, nil) exactly when sanitizeURL
\* accepts the address of every section with an enabled metric and the
\* network name is valid; otherwise it returns false and an error.
C27_ValidIffSectionsAndNetworkAccepted ==
    [][(pcRun = "validate" /\ pcRun' # "validate") =>
          LET accepted ==
                  /\ \A s \in Sections :
                        SectionFlags(s) \cap config.flags # {} =>
                            ~sanitizeURL(config.addr[s]).err
                  /\ ~NetworkValidate(config.network).err
          IN  /\ validateResult'.done
              /\ accepted => (validateResult'.isValid /\ ~validateResult'.err)
              /\ ~accepted => (~validateResult'.isValid /\ validateResult'.err)]_vars

\* Validate accepted a configuration with metrics of two sections enabled.
C27_Witness ==
    /\ validateResult.done
    /\ validateResult.isValid
    /\ SectionFlags("BeaconNode") \cap config.flags # {}
    /\ SectionFlags("ExecutionNode") \cap config.flags # {}

\* C28: a section's Address changes only in Validate, only when one of the
\* section's metrics is enabled and sanitizeURL accepts the address, and then
\* to the sanitized address; flags and network never change.
C28_ValidateRewritesOnlyEnabledSections ==
    [][/\ \A s \in Sections :
             config'.addr[s] # config.addr[s] =>
                 /\ pcRun = "validate"
                 /\ SectionFlags(s) \cap config.flags # {}
                 /\ ~sanitizeURL(config.addr[s]).err
                 /\ config'.addr[s] = sanitizeURL(config.addr[s]).url
       /\ config'.flags = config.flags
       /\ config'.network = config.network]_vars

\* Validate rewrote the beacon node's address and left the execution node's,
\* none of whose metrics is enabled, as it was; the network name then failed.
C28_Witness ==
    /\ validateResult.done
    /\ ~validateResult.isValid
    /\ config.addr["BeaconNode"] = "http://node:5052"
    /\ SectionFlags("ExecutionNode") \cap config.flags = {}
    /\ config.addr["ExecutionNode"] = "http://node:5052/"

\* C34: CPUMetric.measure after a failed read leaves the store and prevUser,
\* prevSystem, total as they were; after a successful read it has appended
\* exactly one DataPoint, holding System and User, and the three counters are
\* the values read. Nothing else touches the store or the counters.
C34_CPUMeasureFrame ==
    [][LET handled == {t \in Collectors :
                          /\ Recv(t) = "CPU"
                          /\ pcM[t] = "handling"
                          /\ pcM'[t] = "select"}
           old == store["CPU"]
           new == store'["CPU"]
       IN  /\ \A t \in handled :
                 IF resp[t].kind = "err"
                 THEN new = old /\ cpuPrev' = cpuPrev
                 ELSE /\ Len(new) = Len(old) + 1
                      /\ SubSeq(new, 1, Len(old)) = old
                      /\ DOMAIN Last(new) = {"System", "User"}
                      /\ cpuPrev'.prevUser = cpuPrev.prevUser + resp[t].data.user
                      /\ cpuPrev'.prevSystem = cpuPrev.prevSystem + resp[t].data.system
                      /\ cpuPrev'.total = cpuPrev.total + resp[t].data.total
           /\ handled = {} => (new = old /\ cpuPrev' = cpuPrev)]_vars

\* Two successful reads were written, and a read that failed is being handled.
C34_Witness ==
    /\ Len(store["CPU"]) = 2
    /\ cpuPrev.total = 8
    /\ pcM["CPU"] = "handling"
    /\ resp["CPU"].kind = "err"

\* C31: the DataPoints of ClientMetric come in runs of four, NodeHealth,
\* Version, SyncStatus, Latency, one per probe of a tick whatever the probe's
\* outcome, each holding that one measurement and no other; a tick's four are
\* never mixed with another tick's.
C31_ClientTickOrder ==
    LET order == <<"NodeHealth", "Version", "SyncStatus", "Latency">>
        points == store["ConsClient"]
    IN  \A i \in 1..Len(points) : DOMAIN points[i] = {order[((i - 1) % 4) + 1]}

\* Two whole ticks were written, the first with a failed health probe, the
\* second with a successful one.
C31_Witness ==
    LET points == store["ConsClient"]
    IN  /\ Len(points) >= 8
        /\ points[1].NodeHealth = "Unhealthy"
        /\ points[4].Latency = "Error"
        /\ points[5].NodeHealth = "Healthy"

\* The collections noted so far come in runs of cpu, memory, disk, network.
InTickOrder ==
    LET order == <<"cpu", "memory", "disk", "network">>
    IN  \A i \in 1..Len(collected) : collected[i].name = order[((i - 1) % 4) + 1]

C33_FetchFailureStaysInGroup ==
    LET order == <<"Consensus", "Execution", "Infrastructure">>
    IN  /\ tablePc # "panicked"
        /\ \A i \in 1..Len(shown) : shown[i].group = order[((i - 1) % 3) + 1]
        /\ tablePc \in {"sleep", "done"} => Len(shown) = 3 * round
====
